---- MODULE Spec2Model ----
(***************************************************************************)
(* A model of the Lox tree-walking evaluator: lox/ast.py (the node         *)
(* classes and their eval methods) and lox/runtime.py (LoxClass,           *)
(* LoxInstance, LoxFunction, LoxInitFunction and the operator functions).  *)
(*                                                                         *)
(* The interpreter is modelled big-step: Eval(node, ctx, st) is the        *)
(* node's eval method, threading the interpreter's heap st and giving      *)
(* back the heap, the value and the Python exception (sig) it ended with.  *)
(* One step of the state machine is one iteration of Program.eval's loop.  *)
(***************************************************************************)
EXTENDS Integers, Sequences, FiniteSets, TLC

(***************************************************************************)
(* Runtime values.  Python objects with identity (instances, classes,      *)
(* frames) live in the heap and are referred to by their index; a          *)
(* function object carries its identity in id.                             *)
(***************************************************************************)
Nil == [k |-> "nil"]

Bool(b) == [k |-> "bool", v |-> b]

Num(n) == [k |-> "num", v |-> n]

Str(s) == [k |-> "str", v |-> s]

\* A Python int, which is not a Lox value: True.real, for one.
PyInt(n) == [k |-> "pyint", v |-> n]

LoxInstance(ref) == [k |-> "instance", ref |-> ref]

LoxClass(ref) == [k |-> "class", ref |-> ref]

LoxFunction(id, name, params, body, ctx) ==
    [k |-> "function", id |-> id, name |-> name, params |-> params,
     body |-> body, ctx |-> ctx, init |-> FALSE, instance |-> 0]

LoxInitFunction(id, name, params, body, ctx, instance) ==
    [k |-> "function", id |-> id, name |-> name, params |-> params,
     body |-> body, ctx |-> ctx, init |-> TRUE, instance |-> instance]

\* A host callable bound in the global scope.  impl is "builtin" for a
\* BuiltinFunctionType and "function" for a FunctionType; show() calls both
\* a native fn.
NativeFn(name, impl) == [k |-> "native", name |-> name, impl |-> impl]

\* A Python object that is no Lox value and that attribute access can hand
\* out: attribute what of owner, of Python class type (an instance's fields
\* dict, a bound Python method of LoxInstance, ...).
PyObj(type, what, owner) ==
    [k |-> "pyobj", type |-> type, what |-> what, owner |-> owner]

\* The absence of a result (a failed dictionary lookup).
Missing == [k |-> "missing"]

EmptyMap == [n \in {} |-> Nil]

(***************************************************************************)
(* Results of an evaluation: the heap after it, the Python exception it    *)
(* ended with ("ok" for none) and the value returned or carried.           *)
(***************************************************************************)
Ok(st, val) == [st |-> st, sig |-> "ok", val |-> val]

Raise(st, exc) == [st |-> st, sig |-> exc, val |-> Nil]

\* The exceptions that are runtime errors, as opposed to LoxReturn.
RuntimeErrors ==
    {"LoxError", "TypeError", "NameError", "AttributeError", "KeyError"}

\* Appends an event to the record of what the current statement did.
Log(st, ev) == [st EXCEPT !.log = Append(@, ev)]

(***************************************************************************)
(* Ctx: the chain of scopes.  A Ctx is the index of its innermost frame.   *)
(***************************************************************************)
RECURSIVE Ctx_find(_, _, _)
\* The innermost frame of the chain from ctx that defines name, 0 for none.
Ctx_find(frames, ctx, name) ==
    IF ctx = 0 THEN 0
    ELSE IF name \in DOMAIN frames[ctx].vars THEN ctx
    ELSE Ctx_find(frames, frames[ctx].parent, name)

Ctx_getitem(st, ctx, name) ==
    LET f == Ctx_find(st.frames, ctx, name)
    IN  IF f = 0 THEN Missing ELSE st.frames[f].vars[name]

\* push: a new child frame holding bindings; the parent is left as it is.
Ctx_push(st, ctx, bindings) ==
    [st |-> [st EXCEPT !.frames = Append(@, [vars |-> bindings, parent |-> ctx])],
     ctx |-> Len(st.frames) + 1]

Ctx_var_def(st, ctx, name, value) ==
    [st EXCEPT !.frames[ctx].vars = (name :> value) @@ @]

Ctx_assign(st, ctx, name, value) ==
    LET f == Ctx_find(st.frames, ctx, name)
    IN  IF f = 0 THEN Raise(st, "KeyError")
        ELSE Ok([st EXCEPT !.frames[f].vars = (name :> value) @@ @], value)

(***************************************************************************)
(* runtime.py: classes, instances, functions.                              *)
(***************************************************************************)
RECURSIVE LoxClass_get_method(_, _, _)
\* The method name of class c or of its nearest base that has one.
LoxClass_get_method(classes, c, name) ==
    IF name \in DOMAIN classes[c].methods THEN classes[c].methods[name]
    ELSE IF classes[c].base # 0
         THEN LoxClass_get_method(classes, classes[c].base, name)
    ELSE Missing

\* bind: a new function sharing name, params and body, whose ctx is the
\* function's ctx extended by a frame {this: obj}.
LoxFunction_bind(st, fn, obj) ==
    LET p == Ctx_push(st, fn.ctx, "this" :> obj)
    IN  [st  |-> [p.st EXCEPT !.nfn = @ + 1],
         val |-> LoxFunction(p.st.nfn + 1, fn.name, fn.params, fn.body, p.ctx)]

\* dict(zip(param_names, args)): a later duplicate of a name wins.
ZipParams(params, args) ==
    [n \in {params[i] : i \in 1..Len(params)} |->
        args[CHOOSE i \in 1..Len(params) :
                /\ params[i] = n
                /\ \A j \in 1..Len(params) : params[j] = n => j <= i]]

(***************************************************************************)
(* runtime.py: the semantic functions.                                     *)
(***************************************************************************)
\* type(value): the Python class of a value.
PyType(v) ==
    CASE v.k = "function" -> IF v.init THEN "LoxInitFunction" ELSE "LoxFunction"
      [] v.k = "native"   -> v.impl
      [] v.k = "pyobj"    -> v.type
      [] OTHER            -> v.k

\* isinstance(value, float): a bool and an int are no float.
IsFloat(v) == v.k = "num"

\* bool, int and float compare with each other by number in Python.
IsNumeric(v) == v.k \in {"num", "bool", "pyint"}

NumOf(v) == IF v.k = "bool" THEN (IF v.v THEN 1 ELSE 0) ELSE v.v

RECURSIVE PyEq(_, _, _)
\* Python's a == b.  LoxInstance, LoxClass and LoxFunction are dataclasses,
\* whose generated __eq__ compares the fields of two objects of one class.
PyEq(st, a, b) ==
    IF IsNumeric(a) /\ IsNumeric(b) THEN NumOf(a) = NumOf(b)
    ELSE IF PyType(a) # PyType(b) \/ a.k # b.k THEN FALSE
    ELSE CASE a.k = "nil" -> TRUE
           [] a.k = "str" -> a.v = b.v
           [] a.k = "instance" ->
                \/ a.ref = b.ref
                \/ /\ PyEq(st, LoxClass(st.insts[a.ref].klass),
                               LoxClass(st.insts[b.ref].klass))
                   /\ DOMAIN st.insts[a.ref].fields = DOMAIN st.insts[b.ref].fields
                   /\ \A n \in DOMAIN st.insts[a.ref].fields :
                         PyEq(st, st.insts[a.ref].fields[n], st.insts[b.ref].fields[n])
           [] a.k = "class" ->
                \/ a.ref = b.ref
                \/ /\ st.classes[a.ref].name = st.classes[b.ref].name
                   /\ DOMAIN st.classes[a.ref].methods = DOMAIN st.classes[b.ref].methods
                   /\ \A n \in DOMAIN st.classes[a.ref].methods :
                         PyEq(st, st.classes[a.ref].methods[n], st.classes[b.ref].methods[n])
                   /\ (st.classes[a.ref].base = 0) = (st.classes[b.ref].base = 0)
                   /\ \/ st.classes[a.ref].base = 0
                      \/ PyEq(st, LoxClass(st.classes[a.ref].base),
                                  LoxClass(st.classes[b.ref].base))
           [] a.k = "function" ->
                /\ a.name = b.name
                /\ a.params = b.params
                /\ a.body = b.body
                /\ a.ctx = b.ctx
                /\ a.init => PyEq(st, LoxInstance(a.instance), LoxInstance(b.instance))
           [] a.k = "native" -> a.name = b.name
           [] a.k = "pyobj" ->
                IF a.type = "dict"
                THEN /\ DOMAIN st.insts[a.owner.ref].fields = DOMAIN st.insts[b.owner.ref].fields
                     /\ \A n \in DOMAIN st.insts[a.owner.ref].fields :
                           PyEq(st, st.insts[a.owner.ref].fields[n],
                                    st.insts[b.owner.ref].fields[n])
                ELSE a = b
           [] OTHER -> FALSE

\* show: the display form.  Numbers of the model are integral floats, whose
\* str() ends in ".0", which removesuffix drops.
show(st, value) ==
    CASE value.k = "nil"      -> "nil"
      [] value.k = "bool"     -> IF value.v THEN "true" ELSE "false"
      [] value.k = "num"      -> ToString(value.v)
      [] value.k = "native"   -> "<native fn>"
      [] value.k = "function" -> IF value.name # "" THEN "<fn " \o value.name \o ">"
                                 ELSE "<fn>"
      [] value.k = "class"    -> st.classes[value.ref].name
      [] value.k = "instance" -> st.classes[st.insts[value.ref].klass].name \o " instance"
      [] value.k = "str"      -> value.v
      [] value.k = "pyint"    -> ToString(value.v)
      [] value.k = "pyobj"    -> "<native fn>"

\* Whether show is modelled for the value: of the Python objects, only for
\* a builtin method, which is a BuiltinFunctionType.
Showable(value) == value.k = "pyobj" => value.type = "builtin"

\* truthy: only nil and false are false.
truthy(value) == ~(value.k = "nil" \/ (value.k = "bool" /\ ~value.v))

not_(st, value) == Ok(st, Bool(~truthy(value)))

neg(st, value) ==
    IF ~IsFloat(value) THEN Raise(st, "LoxError") ELSE Ok(st, Num(-value.v))

\* eq: values of two Python types are never equal; otherwise Python's ==.
eq(st, a, b) == IF PyType(a) # PyType(b) THEN FALSE ELSE PyEq(st, a, b)

ne(st, a, b) == ~eq(st, a, b)

_check_numbers(a, b) == IsFloat(a) /\ IsFloat(b)

add(st, a, b) ==
    IF IsFloat(a) /\ IsFloat(b) THEN Ok(st, Num(a.v + b.v))
    ELSE IF a.k = "str" /\ b.k = "str" THEN Ok(st, Str(a.v \o b.v))
    ELSE Raise(st, "LoxError")

sub(st, a, b) ==
    IF ~_check_numbers(a, b) THEN Raise(st, "LoxError") ELSE Ok(st, Num(a.v - b.v))

mul(st, a, b) ==
    IF ~_check_numbers(a, b) THEN Raise(st, "LoxError") ELSE Ok(st, Num(a.v * b.v))

\* A quotient that is no whole number is outside the numbers of the model.
truediv(st, a, b) ==
    IF ~_check_numbers(a, b) THEN Raise(st, "LoxError")
    ELSE IF b.v = 0 THEN Raise(st, "LoxError")
    ELSE IF a.v % b.v # 0 THEN Raise(st, "OutOfModel")
    ELSE Ok(st, Num(IF a.v >= 0 THEN a.v \div b.v ELSE -((-a.v) \div b.v)))

lt(st, a, b) ==
    IF ~_check_numbers(a, b) THEN Raise(st, "LoxError") ELSE Ok(st, Bool(a.v < b.v))

le(st, a, b) ==
    IF ~_check_numbers(a, b) THEN Raise(st, "LoxError") ELSE Ok(st, Bool(a.v <= b.v))

gt(st, a, b) ==
    IF ~_check_numbers(a, b) THEN Raise(st, "LoxError") ELSE Ok(st, Bool(a.v > b.v))

ge(st, a, b) ==
    IF ~_check_numbers(a, b) THEN Raise(st, "LoxError") ELSE Ok(st, Bool(a.v >= b.v))

(***************************************************************************)
(* ast.py: the nodes.                                                      *)
(***************************************************************************)
Program(stmts) == [t |-> "Program", stmts |-> stmts]

BinOp(left, right, op) == [t |-> "BinOp", left |-> left, right |-> right, op |-> op]

Var(name) == [t |-> "Var", name |-> name]

Literal(value) == [t |-> "Literal", value |-> value]

ExprStmt(expr) == [t |-> "ExprStmt", expr |-> expr]

And(left, right) == [t |-> "And", left |-> left, right |-> right]

Or(left, right) == [t |-> "Or", left |-> left, right |-> right]

UnaryOp(operand, op) == [t |-> "UnaryOp", operand |-> operand, op |-> op]

Call(callee, params) == [t |-> "Call", callee |-> callee, params |-> params]

This == [t |-> "This"]

Super(name) == [t |-> "Super", name |-> name]

Assign(name, value) == [t |-> "Assign", name |-> name, value |-> value]

Getattr(obj, name) == [t |-> "Getattr", obj |-> obj, name |-> name]

Setattr(obj, name, value) ==
    [t |-> "Setattr", obj |-> obj, name |-> name, value |-> value]

PrintStmt(expr) == [t |-> "Print", expr |-> expr]

\* Return.value is None for a bare return.
NoValue == [t |-> "None"]

Return(value) == [t |-> "Return", value |-> value]

VarDef(name, initializer) == [t |-> "VarDef", name |-> name, initializer |-> initializer]

If(condition, then_branch, else_branch) ==
    [t |-> "If", condition |-> condition, then_branch |-> then_branch,
     else_branch |-> else_branch]

While(condition, body) == [t |-> "While", condition |-> condition, body |-> body]

Block(stmts) == [t |-> "Block", stmts |-> stmts]

Function(name, params, body) ==
    [t |-> "Function", name |-> name, params |-> params, body |-> body]

\* Class.base is a Var, or None.
Class(name, methods, base) ==
    [t |-> "Class", name |-> name, methods |-> methods, base |-> base]

(***************************************************************************)
(* Evaluation.  Eval is node.eval(ctx); the eval methods call each other   *)
(* through it.                                                             *)
(***************************************************************************)
RECURSIVE Eval(_, _, _)
RECURSIVE EvalArgs(_, _, _)
RECURSIVE EvalStmts(_, _, _)
RECURSIVE While_eval(_, _, _)

\* [param.eval(ctx) for param in self.params]: left to right, stopping at
\* the first exception.
EvalArgs(params, ctx, st) ==
    IF Len(params) = 0 THEN Ok(st, <<>>)
    ELSE LET r == Eval(Head(params), ctx, st)
         IN  IF r.sig # "ok" THEN r
             ELSE LET rest == EvalArgs(Tail(params), ctx, r.st)
                  IN  IF rest.sig # "ok" THEN rest
                      ELSE Ok(rest.st, <<r.val>> \o rest.val)

\* for stmt in self.stmts: stmt.eval(ctx)
EvalStmts(stmts, ctx, st) ==
    IF Len(stmts) = 0 THEN Ok(st, Nil)
    ELSE LET r == Eval(Head(stmts), ctx, st)
         IN  IF r.sig # "ok" THEN r ELSE EvalStmts(Tail(stmts), ctx, r.st)

\* LoxFunction.call (and __call__, which passes list(args) on).  No object
\* has bind_instance or bind_superclass and a Ctx has no superclass, so the
\* only special binding is a first parameter named this, which local_env
\* holds already: the call frame is ctx.push(local_env).
\* st.curfn (the function whose body runs) and st.lastRet (how the last
\* call ended) only observe.
LoxFunction_call(st, fn, args) ==
    IF Len(args) # Len(fn.params) THEN Raise(st, "TypeError")
    ELSE LET p == Ctx_push(st, fn.ctx, ZipParams(fn.params, args))
             r == Eval(fn.body, p.ctx, [p.st EXCEPT !.curfn = fn.id])
             back == [r.st EXCEPT !.curfn = st.curfn]
         IN  IF r.sig = "LoxReturn"
             THEN Ok([back EXCEPT !.lastRet = [fired |-> TRUE, val |-> r.val]], r.val)
             ELSE IF r.sig = "ok"
             THEN Ok([back EXCEPT !.lastRet = [fired |-> FALSE, val |-> Nil]], Nil)
             ELSE [r EXCEPT !.st = back]

\* LoxInitFunction.__call__ without its override of the result: what the
\* body returns is what the call returns.
LoxInitFunction_call_body(st, fn, args) == LoxFunction_call(st, fn, args)

\* LoxInitFunction.__call__: runs the body, returns the instance.
LoxInitFunction_call(st, fn, args) ==
    LET r == LoxFunction_call(st, fn, args)
    IN  IF r.sig # "ok" THEN r ELSE Ok(r.st, LoxInstance(fn.instance))

\* LoxClass.__call__: a new instance; init, when there is one, is bound to
\* it and called.  A LoxError of get_method or of the call is caught.
LoxClass_call(st, c, args) ==
    LET inst == Len(st.insts) + 1
        st1 == [st EXCEPT !.insts = Append(@, [klass |-> c, fields |-> EmptyMap])]
        initializer == LoxClass_get_method(st1.classes, c, "init")
        Handler(s) == IF Len(args) > 0 THEN Raise(s, "TypeError")
                      ELSE Ok(s, LoxInstance(inst))
    IN  IF initializer.k = "missing" THEN Handler(st1)
        ELSE LET b == LoxFunction_bind(st1, initializer, LoxInstance(inst))
                 r == LoxFunction_call(b.st, b.val, args)
             IN  IF r.sig = "LoxError" THEN Handler(r.st)
                 ELSE IF r.sig # "ok" THEN r
                 ELSE Ok(r.st, LoxInstance(inst))

\* LoxInstance.__getattr__: the field; else the method of the class chain,
\* bound (init as a LoxInitFunction); else LoxError.
LoxInstance_getattr(st, i, name) ==
    IF name \in DOMAIN st.insts[i].fields THEN Ok(st, st.insts[i].fields[name])
    ELSE LET method == LoxClass_get_method(st.classes, st.insts[i].klass, name)
         IN  IF method.k = "missing" THEN Raise(st, "LoxError")
             ELSE LET b == LoxFunction_bind(st, method, LoxInstance(i))
                  IN  IF name = "init"
                      THEN Ok([b.st EXCEPT !.nfn = @ + 1],
                              LoxInitFunction(b.st.nfn + 1, b.val.name, b.val.params,
                                              b.val.body, b.val.ctx, i))
                      ELSE Ok(b.st, b.val)

\* LoxInstance.set_field
LoxInstance_set_field(st, i, name, value) ==
    [st EXCEPT !.insts[i].fields = (name :> value) @@ @]

(***************************************************************************)
(* Python's attribute protocol, which Getattr and Setattr fall back on.    *)
(* The names are the public ones; names with a leading underscore are      *)
(* outside the model.                                                      *)
(***************************************************************************)
\* What object.__getattribute__ finds on a LoxInstance before __getattr__
\* is asked: the dataclass fields and the methods of the class.
InstanceAttrs == {"klass", "fields", "get_field", "set_field"}

FunctionAttrs == {"name", "params", "body", "ctx", "bind", "call"}

FloatMethods == {"as_integer_ratio", "conjugate", "fromhex", "hex", "is_integer"}

IntMethods == {"as_integer_ratio", "bit_length", "conjugate", "from_bytes", "to_bytes"}

StrMethods ==
    {"capitalize", "casefold", "center", "count", "encode", "endswith",
     "expandtabs", "find", "format", "format_map", "index", "isalnum",
     "isalpha", "isascii", "isdecimal", "isdigit", "isidentifier", "islower",
     "isnumeric", "isprintable", "isspace", "istitle", "isupper", "join",
     "ljust", "lower", "lstrip", "maketrans", "partition", "removeprefix",
     "removesuffix", "replace", "rfind", "rindex", "rjust", "rpartition",
     "rsplit", "rstrip", "split", "splitlines", "startswith", "strip",
     "swapcase", "title", "translate", "upper", "zfill"}

DictMethods ==
    {"clear", "copy", "fromkeys", "get", "items", "keys", "pop", "popitem",
     "setdefault", "update", "values"}

ListMethods ==
    {"append", "clear", "copy", "count", "extend", "index", "insert", "pop",
     "remove", "reverse", "sort"}

\* The identity of a host object that has a __dict__: a host function is
\* the one of its name, a Block is the body of the Function node it is in.
PyIdent(obj) ==
    IF obj.k = "native" THEN [k |-> "native", name |-> obj.name]
    ELSE [k |-> "Block", body |-> obj.owner.body]

HasDict(obj) ==
    \/ obj.k = "native" /\ obj.impl = "function"
    \/ obj.k = "pyobj" /\ obj.type = "Block"

\* name in obj.__dict__, and obj.__dict__[name]
HasPyAttr(st, obj, name) ==
    HasDict(obj) /\ \E a \in st.pyattrs : a.obj = PyIdent(obj) /\ a.name = name

GetPyAttr(st, obj, name) ==
    (CHOOSE a \in st.pyattrs : a.obj = PyIdent(obj) /\ a.name = name).value

\* getattr(obj, name) for an obj that is no LoxClass.
PyGetattr(st, obj, name) ==
    CASE obj.k = "instance" ->
            IF name = "klass" THEN Ok(st, LoxClass(st.insts[obj.ref].klass))
            ELSE IF name = "fields" THEN Ok(st, PyObj("dict", name, obj))
            ELSE IF name \in InstanceAttrs THEN Ok(st, PyObj("method", name, obj))
            ELSE LoxInstance_getattr(st, obj.ref, name)
      [] obj.k = "function" ->
            IF name = "name" THEN Ok(st, Str(obj.name))
            ELSE IF name = "params" THEN Ok(st, PyObj("list", name, obj))
            ELSE IF name = "body" THEN Ok(st, PyObj("Block", name, obj))
            ELSE IF name = "ctx" THEN Ok(st, PyObj("Ctx", name, obj))
            ELSE IF name \in FunctionAttrs THEN Ok(st, PyObj("method", name, obj))
            ELSE IF obj.init /\ name = "instance" THEN Ok(st, LoxInstance(obj.instance))
            ELSE Raise(st, "AttributeError")
      [] obj.k = "num" ->
            IF name = "real" THEN Ok(st, obj)
            ELSE IF name = "imag" THEN Ok(st, Num(0))
            ELSE IF name \in FloatMethods THEN Ok(st, PyObj("builtin", name, obj))
            ELSE Raise(st, "AttributeError")
      [] obj.k \in {"bool", "pyint"} ->
            IF name \in {"real", "numerator"} THEN Ok(st, PyInt(NumOf(obj)))
            ELSE IF name = "imag" THEN Ok(st, PyInt(0))
            ELSE IF name = "denominator" THEN Ok(st, PyInt(1))
            ELSE IF name \in IntMethods THEN Ok(st, PyObj("builtin", name, obj))
            ELSE Raise(st, "AttributeError")
      [] obj.k = "str" ->
            IF name \in StrMethods THEN Ok(st, PyObj("builtin", name, obj))
            ELSE Raise(st, "AttributeError")
      [] obj.k = "native" ->
            IF HasPyAttr(st, obj, name) THEN Ok(st, GetPyAttr(st, obj, name))
            ELSE Raise(st, "AttributeError")
      [] obj.k = "pyobj" ->
            IF obj.type = "dict" /\ name \in DictMethods
            THEN Ok(st, PyObj("builtin", name, obj))
            ELSE IF obj.type = "list" /\ name \in ListMethods
            THEN Ok(st, PyObj("builtin", name, obj))
            ELSE IF obj.type = "Block" /\ HasPyAttr(st, obj, name)
            THEN Ok(st, GetPyAttr(st, obj, name))
            ELSE IF obj.type = "Block" /\ name = "stmts"
            THEN Ok(st, PyObj("list", name, obj))
            ELSE IF obj.type \in {"Block", "Ctx"} THEN Raise(st, "OutOfModel")
            ELSE Raise(st, "AttributeError")
      [] OTHER -> Raise(st, "AttributeError")

\* setattr(obj, name, value) for an obj that is no LoxClass, LoxFunction or
\* LoxInstance: only an object with a __dict__ takes a new attribute, which
\* a host function written in Python and a Block (a dataclass) are.
\* Replacing the statements of a Block, and the attributes of a Ctx, are
\* outside the model.
PySetattr(st, obj, name, value) ==
    IF HasDict(obj) /\ ~(obj.k = "pyobj" /\ name = "stmts")
    THEN Ok([st EXCEPT !.pyattrs =
                {a \in @ : ~(a.obj = PyIdent(obj) /\ a.name = name)}
                \cup {[obj |-> PyIdent(obj), name |-> name, value |-> value]}],
            value)
    ELSE IF obj.k = "pyobj" /\ obj.type \in {"Block", "Ctx"}
    THEN Raise(st, "OutOfModel")
    ELSE Raise(st, "AttributeError")

\* callable(func)
Callable(func) ==
    \/ func.k \in {"function", "class", "native"}
    \/ func.k = "pyobj" /\ func.type \in {"method", "builtin"}

\* func(*args).  What a host function or a Python method does when called
\* is outside the model.
Invoke(st, func, args) ==
    CASE func.k = "function" /\ func.init  -> LoxInitFunction_call(st, func, args)
      [] func.k = "function" /\ ~func.init -> LoxFunction_call(st, func, args)
      [] func.k = "class"                  -> LoxClass_call(st, func.ref, args)
      [] OTHER                             -> Raise(st, "OutOfModel")

(***************************************************************************)
(* ast.py: the eval methods.                                               *)
(***************************************************************************)
ApplyBinOp(op, st, a, b) ==
    CASE op = "add"     -> add(st, a, b)
      [] op = "sub"     -> sub(st, a, b)
      [] op = "mul"     -> mul(st, a, b)
      [] op = "truediv" -> truediv(st, a, b)
      [] op = "lt"      -> lt(st, a, b)
      [] op = "le"      -> le(st, a, b)
      [] op = "gt"      -> gt(st, a, b)
      [] op = "ge"      -> ge(st, a, b)
      [] op = "eq"      -> Ok(Log(st, [e |-> "eq", a |-> a, b |-> b, res |-> eq(st, a, b)]),
                              Bool(eq(st, a, b)))
      [] op = "ne"      -> Ok(Log(st, [e |-> "ne", a |-> a, b |-> b, res |-> ne(st, a, b)]),
                              Bool(ne(st, a, b)))

BinOp_eval(node, ctx, st) ==
    LET l == Eval(node.left, ctx, st)
    IN  IF l.sig # "ok" THEN l
        ELSE LET r == Eval(node.right, ctx, l.st)
             IN  IF r.sig # "ok" THEN r
                 ELSE ApplyBinOp(node.op, r.st, l.val, r.val)

Var_eval(node, ctx, st) ==
    LET v == Ctx_getitem(st, ctx, node.name)
    IN  IF v.k = "missing" THEN Raise(st, "NameError") ELSE Ok(st, v)

Literal_eval(node, ctx, st) == Ok(st, node.value)

ExprStmt_eval(node, ctx, st) ==
    LET r == Eval(node.expr, ctx, st)
    IN  IF r.sig # "ok" THEN r ELSE Ok(r.st, Nil)

And_eval(node, ctx, st) ==
    LET l == Eval(node.left, ctx, st)
    IN  IF l.sig # "ok" THEN l
        ELSE IF ~truthy(l.val) THEN l
        ELSE Eval(node.right, ctx, l.st)

\* The two inner tests of Or.eval return left_val as the last line does.
Or_eval(node, ctx, st) ==
    LET l == Eval(node.left, ctx, st)
    IN  IF l.sig # "ok" THEN l
        ELSE IF truthy(l.val) THEN l
        ELSE Eval(node.right, ctx, l.st)

UnaryOp_eval(node, ctx, st) ==
    LET r == Eval(node.operand, ctx, st)
    IN  IF r.sig # "ok" THEN r
        ELSE IF node.op = "neg" THEN neg(r.st, r.val)
        ELSE not_(r.st, r.val)

\* Call.eval.  The event records the call expression's value beside the way
\* the callee's own body ended.
Call_eval(node, ctx, st) ==
    LET f == Eval(node.callee, ctx, st)
    IN  IF f.sig # "ok" THEN f
        ELSE LET a == EvalArgs(node.params, ctx, f.st)
             IN  IF a.sig # "ok" THEN a
                 ELSE IF ~Callable(f.val) THEN Raise(a.st, "TypeError")
                 ELSE LET r == Invoke(a.st, f.val, a.val)
                      IN  [r EXCEPT !.st = Log(@, [e |-> "call", callee |-> f.val,
                                                   args |-> a.val, sig |-> r.sig,
                                                   val |-> r.val, ret |-> r.st.lastRet,
                                                   ninsts |-> Len(a.st.insts)])]

This_eval(node, ctx, st) ==
    LET v == Ctx_getitem(st, ctx, "this")
    IN  IF v.k = "missing" THEN Raise(st, "NameError")
        ELSE Ok(Log(st, [e |-> "this", fn |-> st.curfn, val |-> v]), v)

\* Super.eval looking the method up from the base of the class of this
\* instead of from the lexical super.
Super_eval_dynamic(node, ctx, st) ==
    LET instance == Ctx_getitem(st, ctx, "this")
        superclass == Ctx_getitem(st, ctx, "super")
    IN  IF instance.k = "missing" \/ superclass.k = "missing" THEN Raise(st, "NameError")
        ELSE LET base == st.classes[st.insts[instance.ref].klass].base
                 method == LoxClass_get_method(st.classes, base, node.name)
             IN  IF method.k = "missing" THEN Raise(st, "LoxError")
                 ELSE LET b == LoxFunction_bind(st, method, instance)
                      IN  Ok(Log(b.st, [e |-> "super", name |-> node.name, fn |-> st.curfn,
                                        ctx |-> ctx, this |-> instance, val |-> b.val]),
                             b.val)

Super_eval(node, ctx, st) ==
    LET instance == Ctx_getitem(st, ctx, "this")
        superclass == Ctx_getitem(st, ctx, "super")
    IN  IF instance.k = "missing" \/ superclass.k = "missing" THEN Raise(st, "NameError")
        ELSE LET method == LoxClass_get_method(st.classes, superclass.ref, node.name)
             IN  IF method.k = "missing" THEN Raise(st, "LoxError")
                 ELSE LET b == LoxFunction_bind(st, method, instance)
                      IN  Ok(Log(b.st, [e |-> "super", name |-> node.name, fn |-> st.curfn,
                                        ctx |-> ctx, this |-> instance, val |-> b.val]),
                             b.val)

Assign_eval(node, ctx, st) ==
    LET r == Eval(node.value, ctx, st)
    IN  IF r.sig # "ok" THEN r ELSE Ctx_assign(r.st, ctx, node.name, r.val)

\* Getattr.eval.  st.bound remembers, for each function that binding a
\* method to an instance has made, that instance.
Getattr_eval(node, ctx, st) ==
    LET o == Eval(node.obj, ctx, st)
    IN  IF o.sig # "ok" THEN o
        ELSE LET r == IF o.val.k = "class"
                      THEN LET m == LoxClass_get_method(o.st.classes, o.val.ref, node.name)
                           IN  IF m.k = "missing" THEN Raise(o.st, "AttributeError")
                               ELSE Ok(o.st, m)
                      ELSE PyGetattr(o.st, o.val, node.name)
                 made == r.sig = "ok" /\ r.val.k = "function" /\ r.val.id > o.st.nfn
                 ev == [e |-> "getattr", obj |-> o.val, name |-> node.name,
                        sig |-> r.sig, val |-> r.val,
                        fields |-> IF o.val.k = "instance"
                                   THEN o.st.insts[o.val.ref].fields ELSE EmptyMap]
             IN  [r EXCEPT !.st = Log(IF made
                                      THEN [@ EXCEPT !.bound = (r.val.id :> o.val.ref) @@ @]
                                      ELSE @, ev)]

Setattr_eval(node, ctx, st) ==
    LET o == Eval(node.obj, ctx, st)
    IN  IF o.sig # "ok" THEN o
        ELSE LET v == Eval(node.value, ctx, o.st)
             IN  IF v.sig # "ok" THEN v
                 ELSE LET w == IF o.val.k \in {"class", "function"}
                               THEN Raise(v.st, "LoxError")
                               ELSE IF o.val.k = "instance"
                               THEN Ok(LoxInstance_set_field(v.st, o.val.ref, node.name, v.val),
                                       v.val)
                               ELSE PySetattr(v.st, o.val, node.name, v.val)
                          ev == [e |-> "setattr", obj |-> o.val, name |-> node.name,
                                 sig |-> w.sig, val |-> IF w.sig = "ok" THEN v.val ELSE Nil,
                                 arg |-> v.val,
                                 after |-> IF o.val.k = "instance"
                                           THEN w.st.insts[o.val.ref].fields
                                           ELSE EmptyMap,
                                 changed |-> \/ w.st.insts # v.st.insts
                                             \/ w.st.pyattrs # v.st.pyattrs]
                      IN  [w EXCEPT !.st = Log(@, ev)]

\* Print.eval: builtins.print(show(value)).
Print_eval(node, ctx, st) ==
    LET r == Eval(node.expr, ctx, st)
    IN  IF r.sig # "ok" THEN r
        ELSE IF ~Showable(r.val) THEN Raise(r.st, "OutOfModel")
        ELSE Ok(Log([r.st EXCEPT !.out = Append(@, show(r.st, r.val))],
                    [e |-> "print", text |-> show(r.st, r.val)]), Nil)

\* Return.eval that evaluates the value and raises nothing.
Return_eval_no_raise(node, ctx, st) ==
    LET r == IF node.value.t = "None" THEN Ok(st, Nil) ELSE Eval(node.value, ctx, st)
    IN  IF r.sig # "ok" THEN r
        ELSE Ok(Log(r.st, [e |-> "return", fn |-> st.curfn, val |-> r.val]), r.val)

\* Return.eval: raise LoxReturn(return_value).
Return_eval(node, ctx, st) ==
    LET r == IF node.value.t = "None" THEN Ok(st, Nil) ELSE Eval(node.value, ctx, st)
    IN  IF r.sig # "ok" THEN r
        ELSE [st |-> Log(r.st, [e |-> "return", fn |-> st.curfn, val |-> r.val]),
              sig |-> "LoxReturn", val |-> r.val]

VarDef_eval(node, ctx, st) ==
    LET r == Eval(node.initializer, ctx, st)
    IN  IF r.sig # "ok" THEN r
        ELSE Ok(Ctx_var_def(r.st, ctx, node.name, r.val), Nil)

If_eval(node, ctx, st) ==
    LET c == Eval(node.condition, ctx, st)
    IN  IF c.sig # "ok" THEN c
        ELSE LET r == IF truthy(c.val) THEN Eval(node.then_branch, ctx, c.st)
                      ELSE Eval(node.else_branch, ctx, c.st)
             IN  IF r.sig # "ok" THEN r ELSE Ok(r.st, Nil)

While_eval(node, ctx, st) ==
    LET c == Eval(node.condition, ctx, st)
    IN  IF c.sig # "ok" THEN c
        ELSE IF ~truthy(c.val) THEN Ok(c.st, Nil)
        ELSE LET r == Eval(node.body, ctx, c.st)
             IN  IF r.sig # "ok" THEN r ELSE While_eval(node, ctx, r.st)

\* Block.eval running the statements in the frame of the block's own
\* context, without a child frame.
Block_eval_no_push(node, ctx, st) == EvalStmts(node.stmts, ctx, st)

Block_eval(node, ctx, st) ==
    LET p == Ctx_push(st, ctx, EmptyMap)
    IN  EvalStmts(node.stmts, p.ctx, p.st)

\* [p.name for p in self.params]
ParamNames(params) == [i \in 1..Len(params) |-> params[i].name]

\* Function.eval capturing a copy of the current frame instead of the frame.
Function_eval_snapshot(node, ctx, st) ==
    LET copy == Len(st.frames) + 1
        st1 == [st EXCEPT !.frames = Append(@, @[ctx]), !.nfn = @ + 1]
        function == LoxFunction(st.nfn + 1, node.name, ParamNames(node.params),
                                node.body, copy)
    IN  Ok(Ctx_var_def(st1, ctx, node.name, function), Nil)

Function_eval(node, ctx, st) ==
    LET function == LoxFunction(st.nfn + 1, node.name, ParamNames(node.params),
                                node.body, ctx)
    IN  Ok(Ctx_var_def([st EXCEPT !.nfn = @ + 1], ctx, node.name, function), Nil)

\* The methods dictionary of Class.eval: one LoxFunction a declared method,
\* all with method_ctx; a later method of the same name replaces the earlier.
ClassMethods(methods, method_ctx, nfn) ==
    [n \in {methods[i].name : i \in 1..Len(methods)} |->
        LET i == CHOOSE i \in 1..Len(methods) :
                    /\ methods[i].name = n
                    /\ \A j \in 1..Len(methods) : methods[j].name = n => j <= i
        IN  LoxFunction(nfn + i, n, ParamNames(methods[i].params),
                        methods[i].body, method_ctx)]

Class_eval(node, ctx, st) ==
    LET b == IF node.base.t = "None" THEN Ok(st, Nil) ELSE Eval(node.base, ctx, st)
    IN  IF b.sig # "ok" THEN b
        ELSE IF node.base.t # "None" /\ b.val.k # "class" THEN Raise(b.st, "LoxError")
        ELSE LET superclass == IF node.base.t = "None" THEN 0 ELSE b.val.ref
                 p == IF superclass = 0 THEN [st |-> b.st, ctx |-> ctx]
                      ELSE Ctx_push(b.st, ctx, "super" :> LoxClass(superclass))
                 methods == ClassMethods(node.methods, p.ctx, p.st.nfn)
                 lox_class == Len(p.st.classes) + 1
                 st1 == [p.st EXCEPT
                            !.nfn = @ + Len(node.methods),
                            !.classes = Append(@, [name |-> node.name,
                                                   methods |-> methods,
                                                   base |-> superclass])]
             IN  Ok(Ctx_var_def(st1, ctx, node.name, LoxClass(lox_class)),
                    LoxClass(lox_class))

\* node.eval(ctx).  st.raised observes that a runtime error has come out of
\* the evaluation of a node.
Eval(node, ctx, st) ==
    LET r == CASE node.t = "BinOp"    -> BinOp_eval(node, ctx, st)
               [] node.t = "Var"      -> Var_eval(node, ctx, st)
               [] node.t = "Literal"  -> Literal_eval(node, ctx, st)
               [] node.t = "ExprStmt" -> ExprStmt_eval(node, ctx, st)
               [] node.t = "And"      -> And_eval(node, ctx, st)
               [] node.t = "Or"       -> Or_eval(node, ctx, st)
               [] node.t = "UnaryOp"  -> UnaryOp_eval(node, ctx, st)
               [] node.t = "Call"     -> Call_eval(node, ctx, st)
               [] node.t = "This"     -> This_eval(node, ctx, st)
               [] node.t = "Super"    -> Super_eval(node, ctx, st)
               [] node.t = "Assign"   -> Assign_eval(node, ctx, st)
               [] node.t = "Getattr"  -> Getattr_eval(node, ctx, st)
               [] node.t = "Setattr"  -> Setattr_eval(node, ctx, st)
               [] node.t = "Print"    -> Print_eval(node, ctx, st)
               [] node.t = "Return"   -> Return_eval(node, ctx, st)
               [] node.t = "VarDef"   -> VarDef_eval(node, ctx, st)
               [] node.t = "If"       -> If_eval(node, ctx, st)
               [] node.t = "While"    -> While_eval(node, ctx, st)
               [] node.t = "Block"    -> Block_eval(node, ctx, st)
               [] node.t = "Function" -> Function_eval(node, ctx, st)
               [] node.t = "Class"    -> Class_eval(node, ctx, st)
    IN  IF r.sig \in RuntimeErrors THEN [r EXCEPT !.st.raised = TRUE] ELSE r

(***************************************************************************)
(* ast.py: semantic validation.  A validation gives Accepted or the        *)
(* SemanticError it raises.  A Cursor is the sequence of the nodes that    *)
(* enclose a node, outermost first.                                        *)
(***************************************************************************)
RESERVED_WORDS ==
    {"and", "class", "else", "false", "for", "fun", "if", "nil",
     "or", "print", "return", "super", "this", "true", "var", "while"}

Accepted == [k |-> "accepted"]

SemanticError(token) == [k |-> "SemanticError", token |-> token]

\* cursor.is_scoped_to(type): a node of that type encloses the node.
Cursor_is_scoped_to(cursor, type) == \E i \in 1..Len(cursor) : cursor[i].t = type

\* cursor.class_scope().node: the nearest enclosing Class.
Cursor_class_scope(cursor) ==
    cursor[CHOOSE i \in 1..Len(cursor) :
              /\ cursor[i].t = "Class"
              /\ \A j \in 1..Len(cursor) : cursor[j].t = "Class" => j <= i]

This_validate_self(node, cursor) ==
    IF ~Cursor_is_scoped_to(cursor, "Class") THEN SemanticError("this")
    ELSE Accepted

\* Super.validate_self without the look at the base of the class.
Super_validate_self_any_class(node, cursor) ==
    IF ~Cursor_is_scoped_to(cursor, "Class") THEN SemanticError("super")
    ELSE Accepted

Super_validate_self(node, cursor) ==
    IF ~Cursor_is_scoped_to(cursor, "Class") THEN SemanticError("super")
    ELSE IF Cursor_class_scope(cursor).base.t = "None" THEN SemanticError("super")
    ELSE Accepted

Return_validate_self(node, cursor) ==
    IF ~Cursor_is_scoped_to(cursor, "Function") THEN SemanticError("return")
    ELSE Accepted

VarDef_validate_self(node, cursor) ==
    IF node.name \in RESERVED_WORDS THEN SemanticError(node.name) ELSE Accepted

\* The least number of a non-empty set of numbers: the place of the first
\* failure that a loop over a list meets.
First(places) == CHOOSE i \in places : \A j \in places : i <= j

Block_validate_self(node, cursor) ==
    LET stmts == node.stmts
        seen == {i \in 1..Len(stmts) :
                    /\ stmts[i].t = "VarDef"
                    /\ \E j \in 1..(i - 1) :
                          stmts[j].t = "VarDef" /\ stmts[j].name = stmts[i].name}
    IN  IF seen # {} THEN SemanticError(stmts[First(seen)].name) ELSE Accepted

Function_validate_self(node, cursor) ==
    LET params == node.params
        reserved == {i \in 1..Len(params) : params[i].name \in RESERVED_WORDS}
        duplicate == {i \in 1..Len(params) :
                        \E j \in 1..(i - 1) : params[j].name = params[i].name}
        body == node.body.stmts
        shadows == {i \in 1..Len(body) :
                      /\ body[i].t = "VarDef"
                      /\ body[i].name \in {params[j].name : j \in 1..Len(params)}}
    IN  IF reserved # {} THEN SemanticError(params[First(reserved)].name)
        ELSE IF duplicate # {} THEN SemanticError(params[First(duplicate)].name)
        ELSE IF shadows # {} THEN SemanticError(body[First(shadows)].name)
        ELSE Accepted

\* node.validate_self(cursor), for the nodes that define it.
validate_self(node, cursor) ==
    CASE node.t = "This"     -> This_validate_self(node, cursor)
      [] node.t = "Super"    -> Super_validate_self(node, cursor)
      [] node.t = "Return"   -> Return_validate_self(node, cursor)
      [] node.t = "VarDef"   -> VarDef_validate_self(node, cursor)
      [] node.t = "Block"    -> Block_validate_self(node, cursor)
      [] node.t = "Function" -> Function_validate_self(node, cursor)
      [] OTHER               -> Accepted

\* The child nodes of a node, in the order of its fields.
Children(node) ==
    CASE node.t = "Program"  -> node.stmts
      [] node.t \in {"BinOp", "And", "Or"} -> <<node.left, node.right>>
      [] node.t = "ExprStmt" -> <<node.expr>>
      [] node.t = "UnaryOp"  -> <<node.operand>>
      [] node.t = "Call"     -> <<node.callee>> \o node.params
      [] node.t = "Assign"   -> <<node.value>>
      [] node.t = "Getattr"  -> <<node.obj>>
      [] node.t = "Setattr"  -> <<node.obj, node.value>>
      [] node.t = "Print"    -> <<node.expr>>
      [] node.t = "Return"   -> IF node.value.t = "None" THEN <<>> ELSE <<node.value>>
      [] node.t = "VarDef"   -> <<node.initializer>>
      [] node.t = "If"       -> <<node.condition, node.then_branch, node.else_branch>>
      [] node.t = "While"    -> <<node.condition, node.body>>
      [] node.t = "Block"    -> node.stmts
      [] node.t = "Function" -> node.params \o <<node.body>>
      [] node.t = "Class"    ->
            node.methods \o (IF node.base.t = "None" THEN <<>> ELSE <<node.base>>)
      [] OTHER               -> <<>>

RECURSIVE validate(_, _), validate_all(_, _)
\* The validation pass from node down: validate_self of the node, then the
\* children in order, each with the node added to the cursor; the first
\* SemanticError ends the pass.
validate(node, cursor) ==
    LET e == validate_self(node, cursor)
    IN  IF e.k = "SemanticError" THEN e
        ELSE validate_all(Children(node), Append(cursor, node))

validate_all(nodes, cursor) ==
    IF Len(nodes) = 0 THEN Accepted
    ELSE LET e == validate(Head(nodes), cursor)
         IN  IF e.k = "SemanticError" THEN e
             ELSE validate_all(Tail(nodes), cursor)

(***************************************************************************)
(* The programs.  Every behaviour evaluates one program: the declarations  *)
(* of Prelude, then up to MaxSteps statements, each any statement of the   *)
(* pool of the behaviour's scenario.                                       *)
(***************************************************************************)
MaxSteps == 3

Lit(n) == Literal(Num(n))

Text(s) == Literal(Str(s))

CallVar(name, args) == Call(Var(name), args)

CallMethod(obj, name, args) == Call(Getattr(obj, name), args)

Method(name, params, stmts) == Function(name, params, Block(stmts))

NoElse == Block(<<>>)

\* fun make() { var x = 0; fun inc() { x = x + 1; return x; } return inc; }
FunMake ==
    Function("make", <<>>, Block(<<
        VarDef("x", Lit(0)),
        Function("inc", <<>>, Block(<<
            ExprStmt(Assign("x", BinOp(Var("x"), Lit(1), "add"))),
            Return(Var("x")) >>)),
        Return(Var("inc")) >>))

\* fun peek() { var y = 0; fun get() { return y; } y = 5; return get; }
FunPeek ==
    Function("peek", <<>>, Block(<<
        VarDef("y", Lit(0)),
        Function("get", <<>>, Block(<< Return(Var("y")) >>)),
        ExprStmt(Assign("y", Lit(5))),
        Return(Var("get")) >>))

\* fun early(n) { var i = 0;
\*                while (i < 2) { if (i == n) { { return i; } } i = i + 1; }
\*                print "end"; }
FunEarly ==
    Function("early", <<Var("n")>>, Block(<<
        VarDef("i", Lit(0)),
        While(BinOp(Var("i"), Lit(2), "lt"), Block(<<
            If(BinOp(Var("i"), Var("n"), "eq"),
               Block(<< Block(<< Return(Var("i")) >>) >>), NoElse),
            ExprStmt(Assign("i", BinOp(Var("i"), Lit(1), "add"))) >>)),
        PrintStmt(Text("end")) >>))

\* fun outer(n) { var r = early(n); print "back"; return r; }
FunOuter ==
    Function("outer", <<Var("n")>>, Block(<<
        VarDef("r", CallVar("early", <<Var("n")>>)),
        PrintStmt(Text("back")),
        Return(Var("r")) >>))

\* fun bare() { if (true) return; print "no"; }
FunBare ==
    Function("bare", <<>>, Block(<<
        If(Literal(Bool(TRUE)), Return(NoValue), NoElse),
        PrintStmt(Text("no")) >>))

\* fun boom() { print "pre"; print 1 / 0; print "post"; }
FunBoom ==
    Function("boom", <<>>, Block(<<
        PrintStmt(Text("pre")),
        PrintStmt(BinOp(Lit(1), Lit(0), "truediv")),
        PrintStmt(Text("post")) >>))

\* class A { me() { return this; } who() { return "A"; }
\*           klass() { return this; } }
ClassA ==
    Class("A", << Method("me", <<>>, << Return(This) >>),
                  Method("who", <<>>, << Return(Text("A")) >>),
                  Method("klass", <<>>, << Return(This) >>) >>, NoValue)

\* class B < A { who() { return "B"; } up() { return super.who(); }
\*               sup() { return super.me(); } }
ClassB ==
    Class("B", << Method("who", <<>>, << Return(Text("B")) >>),
                  Method("up", <<>>, << Return(Call(Super("who"), <<>>)) >>),
                  Method("sup", <<>>, << Return(Call(Super("me"), <<>>)) >>) >>,
          Var("A"))

\* class C < B { who() { return "C"; } }
ClassC ==
    Class("C", << Method("who", <<>>, << Return(Text("C")) >>) >>, Var("B"))

\* class P { init(x) { this.x = x; return 7; } }
ClassP ==
    Class("P", << Method("init", <<Var("x")>>, <<
                      ExprStmt(Setattr(This, "x", Var("x"))),
                      Return(Lit(7)) >>) >>, NoValue)

\* class R < P { }
ClassR == Class("R", <<>>, Var("P"))

\* class Q { init() { print "q"; print 1 / 0; print "never"; } }
ClassQ ==
    Class("Q", << Method("init", <<>>, <<
                      PrintStmt(Text("q")),
                      PrintStmt(BinOp(Lit(1), Lit(0), "truediv")),
                      PrintStmt(Text("never")) >>) >>, NoValue)

\* var a = A(); var b = A(); var c = C(); var f = make();
Prelude ==
    << FunMake, FunPeek, FunEarly, FunOuter, FunBare, FunBoom,
       ClassA, ClassB, ClassC, ClassP, ClassR, ClassQ,
       VarDef("a", CallVar("A", <<>>)),
       VarDef("b", CallVar("A", <<>>)),
       VarDef("c", CallVar("C", <<>>)),
       VarDef("f", CallVar("make", <<>>)) >>

PrintCall(name, args) == PrintStmt(CallVar(name, args))

\* Runtime errors at the top level, under If and Block, in a function, in the
\* argument of a call and in an initializer run by calling the class.
PoolErrors ==
    { PrintStmt(Text("x")),
      ExprStmt(CallVar("boom", <<>>)),
      ExprStmt(CallVar("Q", <<>>)),
      If(Literal(Bool(TRUE)),
         Block(<< PrintStmt(BinOp(Literal(Nil), Lit(1), "add")) >>), NoElse),
      ExprStmt(CallVar("P", <<>>)),
      PrintStmt(Var("undefined")),
      PrintCall("early", << CallVar("Q", <<Lit(1)>>) >>) }

\* == and != on instances, classes and functions.
PoolEq ==
    { PrintStmt(BinOp(Var("a"), Var("b"), "eq")),
      PrintStmt(BinOp(Var("a"), Var("a"), "eq")),
      PrintStmt(BinOp(Var("a"), Var("b"), "ne")),
      PrintStmt(BinOp(Var("a"), Var("c"), "eq")),
      ExprStmt(Setattr(Var("a"), "x", Lit(1))),
      ExprStmt(Setattr(Var("b"), "x", Lit(1))),
      PrintStmt(BinOp(Var("A"), Var("B"), "eq")),
      PrintStmt(BinOp(Var("A"), Var("A"), "eq")),
      PrintStmt(BinOp(Var("make"), Var("peek"), "eq")),
      PrintStmt(BinOp(Var("make"), Var("make"), "eq")),
      PrintStmt(BinOp(Getattr(Var("a"), "me"), Getattr(Var("a"), "me"), "eq")) }

\* Getattr on an instance and on the other kinds of value.
PoolGetattr ==
    { ExprStmt(Setattr(Var("a"), "x", Lit(1))),
      ExprStmt(Setattr(Var("a"), "who", Lit(2))),
      ExprStmt(Setattr(Var("a"), "klass", Lit(3))),
      PrintStmt(Getattr(Var("a"), "x")),
      PrintStmt(Getattr(Var("a"), "who")),
      PrintStmt(Getattr(Var("c"), "me")),
      PrintStmt(Getattr(Var("a"), "klass")),
      ExprStmt(Getattr(Var("a"), "fields")),
      ExprStmt(Getattr(Var("a"), "get_field")),
      PrintStmt(Getattr(Var("A"), "who")),
      PrintStmt(Getattr(Var("A"), "x")),
      PrintStmt(Getattr(Var("make"), "name")),
      PrintStmt(Getattr(Var("make"), "x")),
      PrintStmt(Getattr(Lit(1), "real")),
      PrintStmt(Getattr(Lit(1), "x")),
      PrintStmt(Getattr(Text("s"), "upper")),
      PrintStmt(Getattr(Literal(Bool(TRUE)), "real")),
      PrintStmt(Getattr(Literal(Nil), "x")),
      PrintStmt(Getattr(Var("clock"), "x")) }

\* Setattr on every kind of receiver.
PoolSetattr ==
    { PrintStmt(Setattr(Var("a"), "x", Lit(1))),
      PrintStmt(Getattr(Var("a"), "x")),
      ExprStmt(Setattr(Var("A"), "x", Lit(1))),
      ExprStmt(Setattr(Var("make"), "x", Lit(1))),
      ExprStmt(Setattr(Getattr(Var("a"), "me"), "x", Lit(1))),
      ExprStmt(Setattr(Var("clock"), "x", Lit(1))),
      PrintStmt(Getattr(Var("clock"), "x")),
      ExprStmt(Setattr(Getattr(Var("make"), "body"), "x", Lit(1))),
      PrintStmt(Getattr(Getattr(Var("make"), "body"), "x")),
      ExprStmt(Setattr(Lit(1), "x", Lit(1))),
      ExprStmt(Setattr(Text("s"), "x", Lit(1))),
      ExprStmt(Setattr(Literal(Bool(TRUE)), "x", Lit(1))),
      ExprStmt(Setattr(Literal(Nil), "x", Lit(1))) }

\* Calling a class with init, and init looked up on an instance.
PoolInit ==
    { VarDef("p", CallVar("P", <<Lit(1)>>)),
      VarDef("p", CallVar("R", <<Lit(2)>>)),
      PrintStmt(Getattr(Var("p"), "x")),
      PrintStmt(BinOp(CallMethod(Var("p"), "init", <<Lit(3)>>), Var("p"), "eq")),
      VarDef("i", Getattr(Var("p"), "init")),
      PrintStmt(CallVar("i", <<Lit(4)>>)),
      ExprStmt(Setattr(Var("p"), "init", Lit(5))),
      ExprStmt(CallVar("P", <<>>)) }

\* Closures.
PoolClosure ==
    { VarDef("g", CallVar("make", <<>>)),
      PrintCall("f", <<>>),
      PrintCall("g", <<>>),
      PrintStmt(Call(CallVar("peek", <<>>), <<>>)) }

\* Bound methods, called at once and stored.
PoolBind ==
    { VarDef("s", Getattr(Var("a"), "me")),
      VarDef("t", Getattr(Var("c"), "me")),
      VarDef("s", Getattr(Var("b"), "me")),
      PrintStmt(BinOp(CallVar("s", <<>>), Var("a"), "eq")),
      PrintStmt(BinOp(CallVar("t", <<>>), Var("c"), "eq")),
      PrintStmt(BinOp(CallMethod(Var("a"), "me", <<>>), Var("a"), "eq")),
      PrintStmt(CallMethod(Var("c"), "who", <<>>)),
      PrintStmt(CallMethod(Var("c"), "klass", <<>>)) }

\* super in a method of B, on receivers of class B and of class C.
PoolSuper ==
    { VarDef("d", CallVar("B", <<>>)),
      PrintStmt(CallMethod(Var("c"), "up", <<>>)),
      PrintStmt(CallMethod(Var("d"), "up", <<>>)),
      PrintStmt(BinOp(CallMethod(Var("c"), "sup", <<>>), Var("c"), "eq")),
      VarDef("u", Getattr(Var("c"), "up")),
      PrintCall("u", <<>>) }

\* return under If, While and Block, and calls within calls.
PoolReturn ==
    { PrintCall("early", <<Lit(0)>>),
      PrintCall("early", <<Lit(1)>>),
      PrintCall("early", <<Lit(7)>>),
      PrintCall("outer", <<Lit(1)>>),
      PrintCall("outer", <<Lit(7)>>),
      PrintCall("bare", <<>>),
      PrintStmt(CallMethod(CallVar("P", <<Lit(1)>>), "init", <<Lit(2)>>)) }

\* { var v = 2; print v; }
BlockShadow == Block(<< VarDef("v", Lit(2)), PrintStmt(Var("v")) >>)

\* { v = 5; }
BlockAssign == Block(<< ExprStmt(Assign("v", Lit(5))) >>)

\* { var z = 1; print z; }
BlockLocal == Block(<< VarDef("z", Lit(1)), PrintStmt(Var("z")) >>)

\* { var w = 1; { w = 2; var w = 3; w = 4; } print w; }
BlockNested ==
    Block(<< VarDef("w", Lit(1)),
             Block(<< ExprStmt(Assign("w", Lit(2))),
                      VarDef("w", Lit(3)),
                      ExprStmt(Assign("w", Lit(4))) >>),
             PrintStmt(Var("w")) >>)

\* Blocks that define, shadow and assign, and what is seen after them.
PoolBlock ==
    { VarDef("v", Lit(1)),
      BlockShadow,
      BlockAssign,
      BlockLocal,
      BlockNested,
      PrintStmt(Var("v")),
      PrintStmt(Var("z")) }

\* The longest program handed to the validation pass.
MaxProgram == 2

\* fun f() { if (true) { return 1; } }
FunReturns ==
    Function("f", <<>>, Block(<<
        If(Literal(Bool(TRUE)), Block(<< Return(Lit(1)) >>), NoElse) >>))

\* fun g() { print this; }
FunThis == Function("g", <<>>, Block(<< PrintStmt(This) >>))

\* class X { m() { print super.m(); } }
ClassNoBase ==
    Class("X", << Method("m", <<>>, << PrintStmt(Call(Super("m"), <<>>)) >>) >>,
          NoValue)

\* class Y < A { m() { fun h() { return super.who(); } return h() == this; } }
ClassWithBase ==
    Class("Y", << Method("m", <<>>, <<
                      Function("h", <<>>, Block(<<
                          Return(Call(Super("who"), <<>>)) >>)),
                      Return(BinOp(CallVar("h", <<>>), This, "eq")) >>) >>,
          Var("A"))

\* class Z < A { m() { class I { n() { return super.n(); } } } }
ClassInnerNoBase ==
    Class("Z", << Method("m", <<>>, <<
                      Class("I", << Method("n", <<>>, <<
                                        Return(Call(Super("n"), <<>>)) >>) >>,
                            NoValue) >>) >>,
          Var("A"))

\* class W { m() { class J < W { n() { return super.m(); } } return this; } }
ClassInnerWithBase ==
    Class("W", << Method("m", <<>>, <<
                      Class("J", << Method("n", <<>>, <<
                                        Return(Call(Super("m"), <<>>)) >>) >>,
                            Var("W")),
                      Return(This) >>) >>,
          NoValue)

\* Statements with return, this and super in and out of place, and
\* statements that break the other rules of the validation pass.
ValStmts ==
    { Return(Lit(1)),
      While(Literal(Bool(FALSE)), Block(<< Return(NoValue) >>)),
      FunReturns,
      PrintStmt(This),
      FunThis,
      ClassA,
      PrintStmt(Call(Super("m"), <<>>)),
      ClassNoBase,
      ClassWithBase,
      ClassInnerNoBase,
      ClassInnerWithBase,
      Block(<< ClassA, ClassWithBase,
               PrintStmt(CallMethod(CallVar("Y", <<>>), "m", <<>>)) >>),
      Block(<< VarDef("x", Lit(1)), VarDef("x", Lit(2)) >>),
      VarDef("while", Lit(1)),
      Function("k", << Var("n"), Var("n") >>, Block(<< Return(Var("n")) >>)) }

\* The programs of at most MaxProgram statements.
ValPrograms ==
    {Program(stmts) : stmts \in UNION {[1..n -> ValStmts] : n \in 1..MaxProgram}}

Scenarios ==
    {"errors", "eq", "getattr", "setattr", "init", "closure", "bind", "super",
     "return", "block"}

Pool(s) ==
    CASE s = "errors"  -> PoolErrors
      [] s = "eq"      -> PoolEq
      [] s = "getattr" -> PoolGetattr
      [] s = "setattr" -> PoolSetattr
      [] s = "init"    -> PoolInit
      [] s = "closure" -> PoolClosure
      [] s = "bind"    -> PoolBind
      [] s = "super"   -> PoolSuper
      [] s = "return"  -> PoolReturn
      [] s = "block"   -> PoolBlock

\* The host implementations a native function of the global scope can have.
NativeImpls == {"builtin", "function"}

(***************************************************************************)
(* The state machine: Program.eval's loop over the program's statements.   *)
(***************************************************************************)
VARIABLES
    frames,     \* the Ctx frames: [vars, parent]
    insts,      \* the LoxInstance objects: [klass, fields]
    classes,    \* the LoxClass objects: [name, methods, base]
    nfn,        \* the number of LoxFunction objects made so far
    pyattrs,    \* the attributes set on host objects: [obj, name, value]
    out,        \* the lines printed
    status,     \* "running", or the exception that ended Program.eval
    pc,         \* the next statement of Prelude
    nrun,       \* the number of pool statements evaluated
    scenario,   \* the pool the program's statements are taken from
    cur,        \* the statement evaluated last
    log,        \* what the evaluation of cur did
    raised,     \* a runtime error has come out of the evaluation of a node
    bound,      \* function id -> the instance Getattr bound it to
    program,    \* the Program handed to the validation pass
    verdict     \* what the validation pass gave: Unchecked before it

vars ==
    <<frames, insts, classes, nfn, pyattrs, out, status, pc, nrun, scenario,
      cur, log, raised, bound, program, verdict>>

\* The interpreter's heap, as Eval threads it, at the start of a statement.
Heap ==
    [frames |-> frames, insts |-> insts, classes |-> classes, nfn |-> nfn,
     pyattrs |-> pyattrs, out |-> out, log |-> <<>>, raised |-> raised,
     bound |-> bound, curfn |-> 0, lastRet |-> [fired |-> FALSE, val |-> Nil]]

\* The global scope.
Globals == 1

\* No validation pass has run.
Unchecked == [k |-> "unchecked"]

\* The interpreter before the first statement.
Start ==
    /\ \E impl \in NativeImpls :
          frames = << [vars |-> ("clock" :> NativeFn("clock", impl)), parent |-> 0] >>
    /\ insts = <<>>
    /\ classes = <<>>
    /\ nfn = 0
    /\ pyattrs = {}
    /\ out = <<>>
    /\ status = "running"
    /\ pc = 1
    /\ nrun = 0
    /\ cur = NoValue
    /\ log = <<>>
    /\ raised = FALSE
    /\ bound = EmptyMap

\* Program.eval on its own: no validation pass is part of it.
Init ==
    /\ Start
    /\ scenario \in Scenarios
    /\ program = Program(<<>>)
    /\ verdict = Unchecked

\* One iteration of Program.eval: stmt.eval(ctx).  An exception ends the
\* loop and leaves Program.eval.
Step(stmt) ==
    \E r \in {Eval(stmt, Globals, Heap)} :
        /\ r.sig # "OutOfModel"
        /\ frames' = r.st.frames
        /\ insts' = r.st.insts
        /\ classes' = r.st.classes
        /\ nfn' = r.st.nfn
        /\ pyattrs' = r.st.pyattrs
        /\ out' = r.st.out
        /\ log' = r.st.log
        /\ raised' = r.st.raised
        /\ bound' = r.st.bound
        /\ status' = IF r.sig = "ok" THEN "running" ELSE r.sig
        /\ cur' = stmt

Declare ==
    /\ status = "running"
    /\ pc <= Len(Prelude)
    /\ Step(Prelude[pc])
    /\ pc' = pc + 1
    /\ UNCHANGED <<nrun, scenario, program, verdict>>

Run ==
    /\ status = "running"
    /\ pc > Len(Prelude)
    /\ nrun < MaxSteps
    /\ \E stmt \in Pool(scenario) : Step(stmt)
    /\ nrun' = nrun + 1
    /\ UNCHANGED <<pc, scenario, program, verdict>>

Next == Declare \/ Run

Spec == Init /\ [][Next]_vars

(***************************************************************************)
(* Validation, then evaluation: a program goes through the validation     *)
(* pass, and Program.eval runs only when the pass has raised nothing.      *)
(***************************************************************************)
InitV ==
    /\ Start
    /\ scenario = "validate"
    /\ program \in ValPrograms
    /\ verdict = Unchecked

\* The validation pass over the whole program, from an empty cursor.
Validate ==
    /\ verdict = Unchecked
    /\ verdict' = validate(program, <<>>)
    /\ UNCHANGED <<frames, insts, classes, nfn, pyattrs, out, status, pc, nrun,
                   scenario, cur, log, raised, bound, program>>

\* One iteration of Program.eval on an accepted program.
Exec ==
    /\ verdict = Accepted
    /\ status = "running"
    /\ pc <= Len(program.stmts)
    /\ Step(program.stmts[pc])
    /\ pc' = pc + 1
    /\ UNCHANGED <<nrun, scenario, program, verdict>>

NextV == Validate \/ Exec

SpecV == InitV /\ [][NextV]_vars

(***************************************************************************)
(* The claims.                                                             *)
(***************************************************************************)
\* The events of one kind that the evaluation of cur logged.
Events(kind) == {i \in 1..Len(log) : log[i].e = kind}

\* The lines the evaluation of cur printed, in order.
Printed == SelectSeq(log, LAMBDA ev : ev.e = "print")

PrintedTexts == [i \in 1..Len(Printed) |-> Printed[i].text]

Halted == status # "running"

\* C1: once the evaluation of a statement has raised a runtime error, at
\* any depth, Program.eval has ended with it: no construct has caught it, so
\* no later statement is evaluated and nothing more is printed.
C1_ErrorReachesTop == raised => status \in RuntimeErrors

\* Instance, Class and Function values are the objects with identity.
IsObject(v) == v.k \in {"instance", "class", "function"}

SameObject(a, b) ==
    /\ a.k = b.k
    /\ IF a.k = "function" THEN a.id = b.id ELSE a.ref = b.ref

\* C2: == on Instance, Class and Function values is identity, and != is its
\* negation: a == b is true exactly when a and b are the same object.
C2_EqIsIdentity ==
    \A i \in Events("eq") \cup Events("ne") :
        IsObject(log[i].a) /\ IsObject(log[i].b) =>
            log[i].res = ((log[i].e = "eq") <=> SameObject(log[i].a, log[i].b))

\* What binding method m to instance x must give: a function with m's
\* name, parameters and body whose environment is m's, extended by {this: x}.
IsBound(val, m, x) ==
    /\ val.k = "function"
    /\ val.name = m.name
    /\ val.params = m.params
    /\ val.body = m.body
    /\ frames[val.ctx] = [vars |-> ("this" :> x), parent |-> m.ctx]

\* C3: Getattr on an instance gives the field of that name when the field
\* map has one; otherwise the method of the class chain, bound to the
\* instance; otherwise a runtime error.  No name is an exception.
C3_InstanceGetattr ==
    \A i \in Events("getattr") :
        log[i].obj.k = "instance" =>
            LET ev == log[i]
                m == LoxClass_get_method(classes, insts[ev.obj.ref].klass, ev.name)
            IN  IF ev.name \in DOMAIN ev.fields
                THEN ev.sig = "ok" /\ ev.val = ev.fields[ev.name]
                ELSE IF m.k # "missing"
                THEN ev.sig = "ok" /\ IsBound(ev.val, m, ev.obj)
                ELSE ev.sig \in RuntimeErrors

\* C4: Setattr on an instance sets the field and returns the value; on a
\* receiver of any other kind it raises an error and changes no field or
\* attribute of any value.
C4_SetattrOnlyInstances ==
    \A i \in Events("setattr") :
        IF log[i].obj.k = "instance"
        THEN /\ log[i].sig = "ok"
             /\ log[i].val = log[i].arg
             /\ log[i].name \in DOMAIN log[i].after
             /\ log[i].after[log[i].name] = log[i].arg
        ELSE log[i].sig \in RuntimeErrors /\ ~log[i].changed

\* C5: Getattr on a value that is neither an Instance nor a Class raises an
\* error, whatever the name.
C5_NoAttributesElsewhere ==
    \A i \in Events("getattr") :
        log[i].obj.k \notin {"instance", "class"} => log[i].sig \in RuntimeErrors

\* The init method of the class of instance x, or Missing.
InitOf(x) == LoxClass_get_method(classes, insts[x.ref].klass, "init")

\* Calling a class that has an init method gives an instance of the class
\* that did not exist before the call, also when the init body returns.
C6_ClassCall ==
    \A i \in Events("call") :
        LET ev == log[i]
        IN  ev.callee.k = "class" =>
            LET m == LoxClass_get_method(classes, ev.callee.ref, "init")
            IN  m.k # "missing" /\ Len(ev.args) = Len(m.params) =>
                /\ ev.sig \in {"ok"} \cup RuntimeErrors
                /\ ev.ret.fired => ev.sig = "ok"
                /\ ev.sig = "ok" =>
                      /\ ev.val.k = "instance"
                      /\ ev.val.ref > ev.ninsts
                      /\ insts[ev.val.ref].klass = ev.callee.ref

\* Getattr of init on instance x gives the init method bound to x.
InitLookup(ev) ==
    /\ ev.sig = "ok"
    /\ ev.val.k = "function"
    /\ ev.val.init
    /\ ev.val.instance = ev.obj.ref
    /\ IsBound(ev.val, InitOf(ev.obj), ev.obj)

\* Calling the init obtained from instance x runs the body with this = x
\* and gives x, also when the body returns.
C6_InitCall ==
    \A i \in Events("call") :
        LET ev == log[i]
        IN  ev.callee.k = "function" /\ ev.callee.init =>
            /\ ev.sig \in {"ok"} \cup RuntimeErrors
            /\ ev.ret.fired => ev.sig = "ok"
            /\ ev.sig = "ok" => ev.val = LoxInstance(ev.callee.instance)
            /\ \A j \in Events("this") :
                  log[j].fn = ev.callee.id =>
                      log[j].val = LoxInstance(ev.callee.instance)

\* C6 as stated: for every class with init, C(args) is a fresh instance of
\* C, and for every instance x of C, x.init is the init method bound to x,
\* whose call runs the body with this = x and evaluates to x, whatever the
\* body returns.
C6_InitAlwaysInstance ==
    /\ C6_ClassCall
    /\ C6_InitCall
    /\ \A i \in Events("getattr") :
          (/\ log[i].obj.k = "instance"
           /\ log[i].name = "init"
           /\ InitOf(log[i].obj).k # "missing") => InitLookup(log[i])

\* C6, amended: the same for every instance x that has no field named init
\* (a field of that name is what x.init gives, by the rule of Getattr).
C6_InitInstanceUnlessField ==
    /\ C6_ClassCall
    /\ C6_InitCall
    /\ \A i \in Events("getattr") :
          (/\ log[i].obj.k = "instance"
           /\ log[i].name = "init"
           /\ InitOf(log[i].obj).k # "missing"
           /\ "init" \notin DOMAIN log[i].fields) => InitLookup(log[i])

\* x.init(3) has run a body that returned 7 and has given x.
C6_Witness ==
    \E i \in Events("call") :
        /\ log[i].callee.k = "function"
        /\ log[i].callee.init
        /\ log[i].ret = [fired |-> TRUE, val |-> Num(7)]
        /\ log[i].sig = "ok"
        /\ log[i].val = LoxInstance(log[i].callee.instance)
        /\ \E j \in Events("this") : j < i /\ log[j].fn = log[i].callee.id

\* The global variable name holds a counter closure, one inc made by make().
IsCounter(name) ==
    /\ name \in DOMAIN frames[Globals].vars
    /\ frames[Globals].vars[name].k = "function"
    /\ frames[Globals].vars[name].name = "inc"

\* The frame the counter closure has captured, make()'s local scope, and
\* the value of x in it.
Cell(name) == frames[Globals].vars[name].ctx

Count(name) == frames[Cell(name)].vars["x"].v

Counters == {"f", "g"}

\* C7: a function value captures the environment of its definition by
\* reference.  After make() has returned, each call of the counter it
\* returned reads x in make()'s scope, adds one, and the next call of the
\* same value sees it: the calls print 1, 2, 3.  The counter of another call
\* of make() has a scope of its own, which the call leaves as it was.  What
\* peek() assigns to y after defining get, the later call of get sees.
C7_CaptureByReference ==
    [][/\ \A n \in Counters :
            cur' = PrintCall(n, <<>>) /\ IsCounter(n) =>
                /\ status' = "running"
                /\ IsCounter(n)'
                /\ Cell(n)' = Cell(n)
                /\ Count(n)' = Count(n) + 1
                /\ out' = Append(out, ToString(Count(n) + 1))
                /\ \A m \in Counters \ {n} :
                      IsCounter(m) =>
                          /\ Cell(m) # Cell(n)
                          /\ Cell(m)' = Cell(m)
                          /\ Count(m)' = Count(m)
       /\ cur' = VarDef("g", CallVar("make", <<>>)) =>
            /\ IsCounter("g")'
            /\ Cell("g")' \notin 1..Len(frames)
            /\ Count("g")' = 0
            /\ IsCounter("f") => Cell("f")' = Cell("f") /\ Count("f")' = Count("f")
       /\ cur' = PrintStmt(Call(CallVar("peek", <<>>), <<>>)) =>
            status' = "running" /\ out' = Append(out, "5")
      ]_vars

\* Three calls of f have printed 1, 2, 3.
C7_Witness ==
    /\ cur = PrintCall("f", <<>>)
    /\ out = <<"1", "2", "3">>
    /\ Count("f") = 3

\* C8: for every instance x and every method m of x's class chain (that no
\* field of x hides), x.m is a new function, m bound to x: the body
\* evaluates this to x, at once or later, and the class's method and the
\* environment it captured are as before, without a this of their own.
C8_MethodBinding ==
    /\ \A i \in Events("getattr") :
          log[i].obj.k = "instance" =>
              LET ev == log[i]
                  m == LoxClass_get_method(classes, insts[ev.obj.ref].klass, ev.name)
              IN  m.k # "missing" /\ ev.name \notin DOMAIN ev.fields =>
                      /\ ev.sig = "ok"
                      /\ IsBound(ev.val, m, ev.obj)
                      /\ ev.val.id # m.id
                      /\ "this" \notin DOMAIN frames[m.ctx].vars
    /\ \A j \in Events("this") :
          log[j].fn \in DOMAIN bound => log[j].val = LoxInstance(bound[log[j].fn])

\* The classes that declare their methods in environment c.
DeclaredIn(c) ==
    {k \in 1..Len(classes) :
        \E n \in DOMAIN classes[k].methods : classes[k].methods[n].ctx = c}

\* The class whose method body is running in environment c: the class with
\* a base whose methods were declared in the nearest enclosing environment
\* that a class body made; 0 when there is none.
RECURSIVE DeclaringClass(_)
DeclaringClass(c) ==
    IF c = 0 \/ c = Globals THEN 0
    ELSE IF DeclaredIn(c) # {} THEN CHOOSE k \in DeclaredIn(c) : TRUE
    ELSE DeclaringClass(frames[c].parent)

\* C9: super.name in a method declared in class B with base A is the
\* method that looking name up from A gives, bound to the current this,
\* which is the receiver the method was called on; calling it runs that
\* method with this the receiver.  So c.up(), c of class C < B < A, runs A's
\* who and not B's.
C9_SuperIsLexical ==
    /\ \A i \in Events("super") :
          LET ev == log[i]
              decl == DeclaringClass(ev.ctx)
          IN  /\ decl # 0
              /\ classes[decl].base # 0
              /\ LET m == LoxClass_get_method(classes, classes[decl].base, ev.name)
                 IN  m.k # "missing" /\ IsBound(ev.val, m, ev.this)
              /\ ev.fn \in DOMAIN bound => ev.this = LoxInstance(bound[ev.fn])
              /\ \A j \in Events("this") :
                    log[j].fn = ev.val.id => log[j].val = ev.this
    /\ \A x \in {"c", "d"} :
          cur = PrintStmt(CallMethod(Var(x), "up", <<>>)) /\ status = "running" =>
              PrintedTexts = <<"A">>

\* c.up(), with c an instance of C, has evaluated super.who in B's up and
\* has printed A.
C9_Witness ==
    /\ cur = PrintStmt(CallMethod(Var("c"), "up", <<>>))
    /\ PrintedTexts = <<"A">>
    /\ \E i \in Events("super") :
          /\ log[i].this = frames[Globals].vars["c"]
          /\ classes[insts[log[i].this.ref].klass].name = "C"
          /\ classes[DeclaringClass(log[i].ctx)].name = "B"

\* What a Return does next is end the call of the function whose body it is
\* in: nothing else of the body happens, and the call is a success.  A
\* class call, whose init body it was, evaluates to the new instance.  A
\* function call evaluates to the returned value when plain is true or the
\* function is no init method looked up on an instance, and to that
\* instance otherwise.
ReturnEndsCall(plain) ==
    \A j \in Events("return") :
        /\ j < Len(log)
        /\ log[j + 1].e = "call"
        /\ log[j + 1].sig = "ok"
        /\ log[j + 1].callee.k \in {"function", "class"}
        /\ log[j + 1].callee.k = "function" => log[j + 1].callee.id = log[j].fn
        /\ IF log[j + 1].callee.k = "class"
           THEN log[j + 1].val.k = "instance" /\ log[j + 1].val.ref > log[j + 1].ninsts
           ELSE IF plain \/ ~log[j + 1].callee.init
           THEN log[j + 1].val = log[j].val
           ELSE log[j + 1].val = LoxInstance(log[j + 1].callee.instance)

\* A call whose body ends without Return evaluates to nil; no call ends with
\* the return signal.
CallsSurfaceNil ==
    \A i \in Events("call") :
        /\ log[i].sig # "LoxReturn"
        /\ (/\ log[i].callee.k = "function"
             /\ ~log[i].callee.init
             /\ log[i].sig = "ok"
             /\ ~log[i].ret.fired) => log[i].val = Nil

\* What the calls of early, outer and bare print: nothing of a body after
\* its Return, and the caller goes on after the call.
ReturnOutputs ==
    /\ cur = PrintCall("early", <<Lit(0)>>) => PrintedTexts = <<"0">>
    /\ cur = PrintCall("early", <<Lit(1)>>) => PrintedTexts = <<"1">>
    /\ cur = PrintCall("early", <<Lit(7)>>) => PrintedTexts = <<"end", "nil">>
    /\ cur = PrintCall("outer", <<Lit(1)>>) => PrintedTexts = <<"back", "1">>
    /\ cur = PrintCall("outer", <<Lit(7)>>) => PrintedTexts = <<"end", "back", "nil">>
    /\ cur = PrintCall("bare", <<>>) => PrintedTexts = <<"nil">>

\* C10 as stated: a Return under any nesting of If, While and Block ends
\* the nearest enclosing function call and nothing more; the call evaluates
\* to the returned value, or nil; the signal never reaches the top level.
C10_ReturnValueIsCallValue ==
    /\ status # "LoxReturn"
    /\ ReturnEndsCall(TRUE)
    /\ CallsSurfaceNil
    /\ ReturnOutputs

\* C10, amended: the same, except that what an init body returns is
\* dropped: x.init(args) evaluates to x, as the class call that ran init
\* evaluates to the new instance.
C10_ReturnEndsNearestCall ==
    /\ status # "LoxReturn"
    /\ ReturnEndsCall(FALSE)
    /\ CallsSurfaceNil
    /\ ReturnOutputs

\* outer(1): the Return under While, If and two Blocks in early has ended
\* the call of early only; outer has gone on, printed back and returned 1.
C10_Witness ==
    /\ cur = PrintCall("outer", <<Lit(1)>>)
    /\ PrintedTexts = <<"back", "1">>
    /\ \E j \in Events("return") :
          /\ log[j].val = Num(1)
          /\ log[j + 1].callee.name = "early"
          /\ \E k \in Events("return") : k > j /\ log[k + 1].callee.name = "outer"

\* The variables of the global scope.
GlobalVars == frames[Globals].vars

\* C11: a Block runs its statements in a new child frame.  A VarDef in the
\* Block defines nothing in the scope around it, so the name is unknown
\* after the Block; a VarDef of a name of the enclosing scope leaves that
\* binding as it was; an Assign in the Block to a name that only the
\* enclosing scope defines updates that binding, for good.
C11_BlockScoping ==
    [][scenario = "block" /\ pc > Len(Prelude) =>
        /\ cur'.t = "Block" =>
              /\ Len(frames') > Len(frames)
              /\ frames'[Len(frames) + 1].parent = Globals
              /\ DOMAIN GlobalVars' = DOMAIN GlobalVars
              /\ \A n \in DOMAIN GlobalVars :
                    ~(cur' = BlockAssign /\ n = "v") => GlobalVars'[n] = GlobalVars[n]
        /\ cur' = BlockShadow => status' = "running" /\ out' = Append(out, "2")
        /\ cur' = BlockLocal => status' = "running" /\ out' = Append(out, "1")
        /\ cur' = BlockNested => status' = "running" /\ out' = Append(out, "2")
        /\ cur' = BlockAssign =>
              IF "v" \in DOMAIN GlobalVars
              THEN status' = "running" /\ GlobalVars'["v"] = Num(5)
              ELSE status' \in RuntimeErrors
        /\ cur' = PrintStmt(Var("z")) => status' \in RuntimeErrors /\ out' = out
        /\ cur' = PrintStmt(Var("v")) =>
              IF "v" \in DOMAIN GlobalVars
              THEN /\ status' = "running"
                   /\ out' = Append(out, ToString(GlobalVars["v"].v))
              ELSE status' \in RuntimeErrors /\ out' = out
      ]_vars

\* var v = 1; { var v = 2; print v; } print v;  has printed 2, then 1.
C11_Witness ==
    /\ scenario = "block"
    /\ cur = PrintStmt(Var("v"))
    /\ out = <<"2", "1">>
    /\ GlobalVars["v"] = Num(1)

\* The token of a node that breaks a rule where it stands, as a sequence of
\* one token, or of none: a Return with no Function around it, a This with
\* no Class around it, a Super whose nearest Class around it has no base or
\* that has none around it and, when others is true, a node that breaks
\* one of the rules for VarDef, Block and Function.
Offence(node, inFunction, inClass, hasBase, others) ==
    CASE node.t = "Return" /\ ~inFunction -> <<"return">>
      [] node.t = "This" /\ ~inClass -> <<"this">>
      [] node.t = "Super" /\ ~(inClass /\ hasBase) -> <<"super">>
      [] others /\ node.t \in {"VarDef", "Block", "Function"}
                /\ validate_self(node, <<>>).k = "SemanticError" ->
            <<validate_self(node, <<>>).token>>
      [] OTHER -> <<>>

RECURSIVE Offences(_, _, _, _, _), OffencesOfAll(_, _, _, _, _)
\* The offences of node and of the nodes below it, parents before children
\* and children in their order.
Offences(node, inFunction, inClass, hasBase, others) ==
    Offence(node, inFunction, inClass, hasBase, others)
    \o OffencesOfAll(Children(node),
                     inFunction \/ node.t = "Function",
                     inClass \/ node.t = "Class",
                     IF node.t = "Class" THEN node.base.t # "None" ELSE hasBase,
                     others)

OffencesOfAll(nodes, inFunction, inClass, hasBase, others) ==
    IF Len(nodes) = 0 THEN <<>>
    ELSE Offences(Head(nodes), inFunction, inClass, hasBase, others)
         \o OffencesOfAll(Tail(nodes), inFunction, inClass, hasBase, others)

\* The misplaced return, this and super of the program, and everything in
\* it that breaks a rule.
Misplaced == Offences(program, FALSE, FALSE, FALSE, FALSE)

Broken == Offences(program, FALSE, FALSE, FALSE, TRUE)

NothingEvaluated ==
    /\ pc = 1
    /\ cur = NoValue
    /\ out = <<>>
    /\ log = <<>>
    /\ status = "running"
    /\ Len(frames) = 1
    /\ DOMAIN GlobalVars = {"clock"}
    /\ insts = <<>>
    /\ classes = <<>>
    /\ nfn = 0

====
